---- MODULE Spec2Model ----
(***************************************************************************)
(* Model of generar_pdfs.py: the batch orchestrator main(), the name       *)
(* generator nombre_pdf, the random text generator generar_texto_aleatorio *)
(* and the PDF writer crear_pdf.                                           *)
(*                                                                         *)
(* Strings are sequences of one-character strings.  Three entry points are *)
(* explored: a run of main() (possibly followed by further runs on the     *)
(* same file system), a call of generar_texto_aleatorio(n), and the body   *)
(* of crear_pdf from the canvas creation on, applied to a given text.      *)
(* Inside main() a text of size_mb * 1024 * 1024 characters is carried by  *)
(* its length only.                                                        *)
(***************************************************************************)
EXTENDS Integers, Sequences, FiniteSets, TLC

VARIABLES
    cantidad, tmin, tmax, patron, salida,   \* args of main (lines 95-101)
    dir_existe, disk,                       \* the file system: output directory, files by path
    pc,                                     \* position in the code
    run,                                    \* number of the current run of main
    k,                                      \* iterations of the for loop of main started
    nombre, ruta_pdf,                       \* locals of main (lines 111-112)
    size_mb, size_bytes, texto_len,         \* locals of crear_pdf (lines 56-59), len(texto)
    canvas,                                 \* the canvas c of crear_pdf in main
    names, llamadas, printed, err,          \* history: names drawn, crear_pdf calls, line 115, exception
    disk0, disk_antes, resultados,          \* history: disk at run start, disk at crear_pdf call, ended runs
    texto, i, linea, ops                    \* generar_texto_aleatorio / crear_pdf on a concrete text

vars == <<cantidad, tmin, tmax, patron, salida, dir_existe, disk, pc, run, k,
          nombre, ruta_pdf, size_mb, size_bytes, texto_len, canvas,
          names, llamadas, printed, err, disk0, disk_antes, resultados,
          texto, i, linea, ops>>

----------------------------------------------------------------------------
(* Bounds of the exploration *)

MaxCount == 2      \* --cantidad ranges over -1..MaxCount
MaxMb == 1         \* --tmin, --tmax range over -1..MaxMb
MaxGenLen == 2     \* generar_texto_aleatorio(n) explored for n in -1..MaxGenLen
MaxPages == 2      \* crear_pdf's loop explored on texts of up to MaxPages full pages (+ a bit)

----------------------------------------------------------------------------
(* Program constants *)

NumLo == 10000                  \* line 89
NumHi == 99999                  \* line 89
Kilo == 1024                    \* line 57
ChunkSize == 100                \* lines 66-67
max_lineas_por_pagina == 50     \* line 65
YTop == 750                     \* line 68
LineHeight == 14                \* line 68
XLeft == 40                     \* line 69

----------------------------------------------------------------------------
(* Library and language semantics used by the program *)

Min(a, b) == IF a < b THEN a ELSE b

\* The exception names used in err.tipo
ValueError == "ValueError"
OSError == "OSError"

\* random.randint(a, b): the possible outcomes, either a returned integer N
\* with a <= N <= b or, for an empty range (a > b), a raised ValueError.
Returns(S) == {[raises |-> "", val |-> n] : n \in S}
Raises(e) == {[raises |-> e, val |-> 0]}

RandintSwapped(a, b) == IF a > b THEN Returns(b..a) ELSE Returns(a..b)
Randint(a, b) == IF a > b THEN Raises(ValueError) ELSE Returns(a..b)

\* len(range(n)): the number of iterations of `for _ in range(n)`.
RangeLenAbs(n) == IF n > 0 THEN n ELSE 0 - n
RangeLen(n) == IF n > 0 THEN n ELSE 0

\* len(range(0, n, step)): the number of iterations of the chunk loop.
RangeStepLen(n, step) == IF n > 0 THEN (n + step - 1) \div step ELSE 0

\* str(n) for n >= 0, as the f-string of line 90 formats an int.
Digits == <<"0", "1", "2", "3", "4", "5", "6", "7", "8", "9">>

RECURSIVE Str(_)
Str(n) == IF n < 10 THEN <<Digits[n + 1]>>
          ELSE Str(n \div 10) \o <<Digits[(n % 10) + 1]>>

\* posixpath.join(a, b) for two components.
OsPathJoin(a, b) ==
    IF b # <<>> /\ b[1] = "/" THEN b
    ELSE IF a = <<>> \/ a[Len(a)] = "/" THEN a \o b
    ELSE a \o <<"/">> \o b

\* s[i:j] for 0 <= i <= j (Python slice, clipped to the length of s).
Slice(s, lo, hi) == SubSeq(s, lo + 1, Min(hi, Len(s)))

----------------------------------------------------------------------------
(* generar_texto_aleatorio, lines 31-44 *)

\* line 41: string.ascii_letters + string.digits + " "
caracteres ==
    <<"a","b","c","d","e","f","g","h","i","j","k","l","m","n","o","p","q","r","s",
      "t","u","v","w","x","y","z","A","B","C","D","E","F","G","H","I","J","K","L",
      "M","N","O","P","Q","R","S","T","U","V","W","X","Y","Z","0","1","2","3","4",
      "5","6","7","8","9"," ">>

\* len(generar_texto_aleatorio(size_bytes)): one character per iteration of
\* range(size_bytes), line 43.
LenTexto(n) == RangeLen(n)

----------------------------------------------------------------------------
(* nombre_pdf, lines 79-90 *)

\* The outcomes of random.randint(lo, hi) that are explored: both ends of
\* the range and the successor of its lower end.
Muestra(lo, hi) == {n \in {lo, lo + 1, hi} : lo <= n /\ n <= hi}

\* line 89
NumerosCortos == Muestra(NumLo \div 10, NumHi)
Numeros == Muestra(NumLo, NumHi)

\* line 90: f"{patron}-{numero}.pdf"
Formato(p, numero) == p \o <<"-">> \o Str(numero) \o <<".", "p", "d", "f">>

----------------------------------------------------------------------------
(* crear_pdf, lines 47-76 *)

\* line 57
TamBytesDecimal(mb) == mb * 1000 * 1000
TamBytes(mb) == mb * Kilo * Kilo

\* line 67: texto[i:i + 100]
FragmentoCorto(t, j) == Slice(t, j, j + ChunkSize - 1)
Fragmento(t, j) == Slice(t, j, j + ChunkSize)

\* line 68
PosY(l) == YTop - (l * LineHeight)

\* line 72
PaginaLlenaTarde(l) == l > max_lineas_por_pagina
PaginaLlena(l) == l >= max_lineas_por_pagina

\* line 66: the loop goes on while the next start index is below len(texto)
EnRango(j, n) == j < n

----------------------------------------------------------------------------
(* The file system and the values of the state *)

NoFile == <<>>        \* a disk without files: the function with empty domain
NoCanvas == [abierto |-> FALSE, ruta |-> <<>>, draws |-> 0, pages |-> 0, saved |-> 0]
NoErr == [tipo |-> "", en |-> ""]

\* The file written by iteration kk of run r, and whether c.save() completed.
Archivo(r, kk, ok) == [run |-> r, k |-> kk, completo |-> ok]

\* The disk after a write to path p.
Escribir(d, p, f) == (p :> f) @@ d

\* Inputs explored
Cantidades == -1..MaxCount
Megas == -1..MaxMb
Patrones == {<<"T">>, <<"F", "N">>}
Salidas == {<<"o">>, <<"o", "/">>}

MainPcs == {"makedirs", "for", "nombre_pdf", "join", "randint", "texto", "canvas",
            "draw", "save", "print", "done", "error"}

----------------------------------------------------------------------------
(* main, lines 93-115 *)

InitMain ==
    /\ cantidad \in Cantidades
    /\ tmin \in Megas
    /\ tmax \in Megas
    /\ patron \in Patrones
    /\ salida \in Salidas
    /\ dir_existe \in BOOLEAN
    /\ disk = NoFile
    /\ pc = "makedirs"
    /\ run = 1
    /\ k = 0
    /\ nombre = <<>>
    /\ ruta_pdf = <<>>
    /\ size_mb = 0
    /\ size_bytes = 0
    /\ texto_len = 0
    /\ canvas = NoCanvas
    /\ names = <<>>
    /\ llamadas = <<>>
    /\ printed = FALSE
    /\ err = NoErr
    /\ disk0 = NoFile
    /\ disk_antes = NoFile
    /\ resultados = <<>>
    /\ texto = <<>>
    /\ i = 0
    /\ linea = 0
    /\ ops = <<>>

args == <<cantidad, tmin, tmax, patron, salida>>
concreto == <<texto, i, linea, ops>>

\* line 104: os.makedirs(args.salida, exist_ok=True).  An existing directory
\* is accepted; a missing one is created, or the creation fails (OSError).
MakedirsNoExistOk ==
    /\ pc = "makedirs"
    /\ \/ /\ ~dir_existe
          /\ dir_existe' = TRUE
          /\ pc' = "for"
          /\ err' = err
       \/ /\ pc' = "error"
          /\ err' = [tipo |-> OSError, en |-> "makedirs"]
          /\ dir_existe' = dir_existe
    /\ UNCHANGED <<args, disk, run, k, nombre, ruta_pdf, size_mb, size_bytes, texto_len,
                   canvas, names, llamadas, printed, disk0, disk_antes, resultados, concreto>>

Makedirs ==
    /\ pc = "makedirs"
    /\ \/ /\ dir_existe' = TRUE
          /\ pc' = "for"
          /\ err' = err
       \/ /\ ~dir_existe
          /\ pc' = "error"
          /\ err' = [tipo |-> OSError, en |-> "makedirs"]
          /\ dir_existe' = dir_existe
    /\ UNCHANGED <<args, disk, run, k, nombre, ruta_pdf, size_mb, size_bytes, texto_len,
                   canvas, names, llamadas, printed, disk0, disk_antes, resultados, concreto>>

\* line 110: for _ in tqdm(range(args.cantidad), ...)
OtraVueltaDeMas == k <= cantidad
OtraVuelta == k < RangeLen(cantidad)

For ==
    /\ pc = "for"
    /\ IF OtraVuelta
         THEN /\ k' = k + 1
              /\ pc' = "nombre_pdf"
         ELSE /\ k' = k
              /\ pc' = "print"
    /\ UNCHANGED <<args, dir_existe, disk, run, nombre, ruta_pdf, size_mb, size_bytes,
                   texto_len, canvas, names, llamadas, printed, err, disk0, disk_antes,
                   resultados, concreto>>

\* line 111 with lines 89-90: nombre = nombre_pdf(args.patron)
NombrePdf ==
    /\ pc = "nombre_pdf"
    /\ \E numero \in Numeros :
          /\ nombre' = Formato(patron, numero)
          /\ names' = Append(names, nombre')
    /\ pc' = "join"
    /\ UNCHANGED <<args, dir_existe, disk, run, k, ruta_pdf, size_mb, size_bytes, texto_len,
                   canvas, llamadas, printed, err, disk0, disk_antes, resultados, concreto>>

\* line 112: ruta_pdf = os.path.join(args.salida, nombre)
Join ==
    /\ pc = "join"
    /\ ruta_pdf' = OsPathJoin(salida, nombre)
    /\ pc' = "randint"
    /\ UNCHANGED <<args, dir_existe, disk, run, k, nombre, size_mb, size_bytes, texto_len,
                   canvas, names, llamadas, printed, err, disk0, disk_antes, resultados,
                   concreto>>

\* line 113 and lines 56-57: the call crear_pdf(ruta_pdf, args.tmin, args.tmax),
\* size_mb = random.randint(tam_min_mb, tam_max_mb), size_bytes
CrearPdfRandint ==
    /\ pc = "randint"
    /\ llamadas' = Append(llamadas, ruta_pdf)
    /\ disk_antes' = disk
    /\ \E r \in Randint(tmin, tmax) :
          IF r.raises # ""
            THEN /\ pc' = "error"
                 /\ err' = [tipo |-> r.raises, en |-> "randint"]
                 /\ UNCHANGED <<size_mb, size_bytes>>
            ELSE /\ size_mb' = r.val
                 /\ size_bytes' = TamBytes(r.val)
                 /\ pc' = "texto"
                 /\ err' = err
    /\ UNCHANGED <<args, dir_existe, disk, run, k, nombre, ruta_pdf, texto_len, canvas,
                   names, printed, disk0, resultados, concreto>>

\* line 59: texto = generar_texto_aleatorio(size_bytes), carried by its length
CrearPdfTexto ==
    /\ pc = "texto"
    /\ texto_len' = LenTexto(size_bytes)
    /\ pc' = "canvas"
    /\ UNCHANGED <<args, dir_existe, disk, run, k, nombre, ruta_pdf, size_mb, size_bytes,
                   canvas, names, llamadas, printed, err, disk0, disk_antes, resultados,
                   concreto>>

\* line 61: c = canvas.Canvas(ruta, pagesize=LETTER); nothing is written yet
CrearPdfCanvas ==
    /\ pc = "canvas"
    /\ canvas' = [abierto |-> TRUE, ruta |-> ruta_pdf, draws |-> 0, pages |-> 0, saved |-> 0]
    /\ pc' = "draw"
    /\ UNCHANGED <<args, dir_existe, disk, run, k, nombre, ruta_pdf, size_mb, size_bytes,
                   texto_len, names, llamadas, printed, err, disk0, disk_antes, resultados,
                   concreto>>

\* lines 64-74 as a whole: one drawString per chunk of the text, one showPage
\* per max_lineas_por_pagina chunks
CrearPdfDraw ==
    /\ pc = "draw"
    /\ LET n == RangeStepLen(texto_len, ChunkSize)
       IN  canvas' = [canvas EXCEPT !.draws = n, !.pages = n \div max_lineas_por_pagina]
    /\ pc' = "save"
    /\ UNCHANGED <<args, dir_existe, disk, run, k, nombre, ruta_pdf, size_mb, size_bytes,
                   texto_len, names, llamadas, printed, err, disk0, disk_antes, resultados,
                   concreto>>

\* CrearPdfSave with the error caught and the loop going on
CrearPdfSaveContinua ==
    /\ pc = "save"
    /\ \/ /\ disk' = Escribir(disk, canvas.ruta, Archivo(run, k, TRUE))
          /\ canvas' = [canvas EXCEPT !.saved = canvas.saved + 1]
          /\ err' = err
       \/ /\ \/ disk' = disk
             \/ disk' = Escribir(disk, canvas.ruta, Archivo(run, k, FALSE))
          /\ canvas' = [canvas EXCEPT !.saved = canvas.saved + 1]
          /\ err' = [tipo |-> OSError, en |-> "save"]
    /\ pc' = "for"
    /\ size_mb' = 0
    /\ size_bytes' = 0
    /\ texto_len' = 0
    /\ UNCHANGED <<args, dir_existe, run, k, nombre, ruta_pdf, names, llamadas, printed,
                   disk0, disk_antes, resultados, concreto>>

\* line 76: c.save() writes the file at ruta, replacing what was there; on a
\* file system error the file is either untouched (it could not be opened)
\* or left incomplete (the write failed), and the error propagates.
CrearPdfSave ==
    /\ pc = "save"
    /\ \/ /\ disk' = Escribir(disk, canvas.ruta, Archivo(run, k, TRUE))
          /\ canvas' = [canvas EXCEPT !.saved = canvas.saved + 1]
          /\ pc' = "for"
          /\ err' = err
          /\ size_mb' = 0           \* crear_pdf returns: its locals are gone
          /\ size_bytes' = 0
          /\ texto_len' = 0
       \/ /\ \/ disk' = disk
             \/ disk' = Escribir(disk, canvas.ruta, Archivo(run, k, FALSE))
          /\ canvas' = canvas
          /\ pc' = "error"
          /\ err' = [tipo |-> OSError, en |-> "save"]
          /\ UNCHANGED <<size_mb, size_bytes, texto_len>>
    /\ UNCHANGED <<args, dir_existe, run, k, nombre, ruta_pdf, names, llamadas, printed,
                   disk0, disk_antes, resultados, concreto>>

\* line 115: print("... Proceso completado ...")
Completado ==
    /\ pc = "print"
    /\ printed' = TRUE
    /\ pc' = "done"
    /\ UNCHANGED <<args, dir_existe, disk, run, k, nombre, ruta_pdf, size_mb, size_bytes,
                   texto_len, canvas, names, llamadas, err, disk0, disk_antes, resultados,
                   concreto>>

\* lines 118-119: the script is run a second time, with the same arguments,
\* on the file system the first run left
MainOtraVez ==
    /\ pc \in {"done", "error"}
    /\ run = 1
    /\ run' = run + 1
    /\ resultados' = Append(resultados, pc)
    /\ pc' = "makedirs"
    /\ k' = 0
    /\ nombre' = <<>>
    /\ ruta_pdf' = <<>>
    /\ size_mb' = 0
    /\ size_bytes' = 0
    /\ texto_len' = 0
    /\ canvas' = NoCanvas
    /\ names' = <<>>
    /\ llamadas' = <<>>
    /\ printed' = FALSE
    /\ err' = NoErr
    /\ disk0' = disk
    /\ disk_antes' = disk
    /\ UNCHANGED <<args, dir_existe, disk, concreto>>

----------------------------------------------------------------------------
(* generar_texto_aleatorio(size_bytes) on its own, lines 41-44: the text is *)
(* built character by character, i counts the iterations of range(size_bytes) *)

mainVars == <<cantidad, tmin, tmax, patron, salida, dir_existe, disk, run, k, nombre,
              ruta_pdf, size_mb, texto_len, canvas, names, llamadas, printed, err,
              disk0, disk_antes, resultados>>

InitOtros ==
    /\ cantidad = 0
    /\ tmin = 0
    /\ tmax = 0
    /\ patron = <<>>
    /\ salida = <<>>
    /\ dir_existe = FALSE
    /\ disk = NoFile
    /\ run = 0
    /\ k = 0
    /\ nombre = <<>>
    /\ ruta_pdf = <<>>
    /\ size_mb = 0
    /\ texto_len = 0
    /\ canvas = NoCanvas
    /\ names = <<>>
    /\ llamadas = <<>>
    /\ printed = FALSE
    /\ err = NoErr
    /\ disk0 = NoFile
    /\ disk_antes = NoFile
    /\ resultados = <<>>

InitTexto ==
    /\ InitOtros
    /\ size_bytes \in -1..MaxGenLen
    /\ pc = "g_for"
    /\ texto = <<>>
    /\ i = 0
    /\ linea = 0
    /\ ops = <<>>

\* line 43: one random.choice(caracteres) per iteration of range(size_bytes)
GenerarTextoChoice ==
    /\ pc = "g_for"
    /\ i < RangeLen(size_bytes)
    /\ \E j \in 1..Len(caracteres) : texto' = Append(texto, caracteres[j])
    /\ i' = i + 1
    /\ UNCHANGED <<mainVars, size_bytes, pc, linea, ops>>

\* lines 43-44: the range is exhausted, the joined text is returned
GenerarTextoReturn ==
    /\ pc = "g_for"
    /\ ~(i < RangeLen(size_bytes))
    /\ pc' = "g_ret"
    /\ UNCHANGED <<mainVars, size_bytes, texto, i, linea, ops>>

----------------------------------------------------------------------------
(* crear_pdf from line 61 on, applied to a concrete text: ops is the        *)
(* sequence of calls made on the canvas c                                   *)

\* A text of n characters as generar_texto_aleatorio may return it: the
\* alphabet in order, repeated.
TextoDe(n) == [j \in 1..n |-> caracteres[((j - 1) % Len(caracteres)) + 1]]

\* Text lengths explored: around every multiple of a chunk that starts,
\* follows the start of, or ends a page, for up to MaxPages full pages.
Longitudes ==
    {n \in {(p * max_lineas_por_pagina + c) * ChunkSize + d :
                p \in 0..MaxPages, c \in {0, 1, max_lineas_por_pagina - 1}, d \in {-1, 0, 1}} :
        n >= 0}

Op(name, y, l, s) == [op |-> name, x |-> XLeft, y |-> y, linea |-> l, s |-> s]
OpShowPage == [op |-> "showPage", x |-> 0, y |-> 0, linea |-> 0, s |-> <<>>]
OpSave == [op |-> "save", x |-> 0, y |-> 0, linea |-> 0, s |-> <<>>]

InitPdf ==
    /\ InitOtros
    /\ size_bytes = 0
    /\ pc = "p_canvas"
    /\ texto \in {TextoDe(n) : n \in Longitudes}
    /\ i = 0
    /\ linea = 0
    /\ ops = <<>>

\* lines 61-65: the canvas is created, linea = 0
PdfCanvas ==
    /\ pc = "p_canvas"
    /\ ops' = <<>>
    /\ linea' = 0
    /\ i' = 0
    /\ pc' = "p_for"
    /\ UNCHANGED <<mainVars, size_bytes, texto>>

\* PdfFragmento with c.save() inside the loop
PdfFragmentoGuarda ==
    /\ pc = "p_for"
    /\ EnRango(i, Len(texto))
    /\ LET fragmento == Fragmento(texto, i)
           y == PosY(linea)
           dibujado == Append(ops, Op("drawString", y, linea, fragmento))
       IN  IF PaginaLlena(linea + 1)
             THEN /\ ops' = Append(Append(dibujado, OpShowPage), OpSave)
                  /\ linea' = 0
             ELSE /\ ops' = Append(dibujado, OpSave)
                  /\ linea' = linea + 1
    /\ i' = i + ChunkSize
    /\ UNCHANGED <<mainVars, size_bytes, texto, pc>>

\* lines 66-74: one iteration of the loop over range(0, len(texto), 100)
PdfFragmento ==
    /\ pc = "p_for"
    /\ EnRango(i, Len(texto))
    /\ LET fragmento == Fragmento(texto, i)
           y == PosY(linea)
           dibujado == Append(ops, Op("drawString", y, linea, fragmento))
       IN  IF PaginaLlena(linea + 1)
             THEN /\ ops' = Append(dibujado, OpShowPage)
                  /\ linea' = 0
             ELSE /\ ops' = dibujado
                  /\ linea' = linea + 1
    /\ i' = i + ChunkSize
    /\ UNCHANGED <<mainVars, size_bytes, texto, pc>>

\* line 76: c.save(), after the loop; it returns or raises
PdfSave ==
    /\ pc = "p_for"
    /\ ~EnRango(i, Len(texto))
    /\ \/ /\ ops' = Append(ops, OpSave)
          /\ pc' = "p_ret"
       \/ /\ ops' = ops
          /\ pc' = "p_error"
    /\ UNCHANGED <<mainVars, size_bytes, texto, i, linea>>

----------------------------------------------------------------------------

Next ==
    \/ GenerarTextoChoice
    \/ GenerarTextoReturn
    \/ PdfCanvas
    \/ PdfFragmento
    \/ PdfSave
    \/ Makedirs
    \/ For
    \/ NombrePdf
    \/ Join
    \/ CrearPdfRandint
    \/ CrearPdfTexto
    \/ CrearPdfCanvas
    \/ CrearPdfDraw
    \/ CrearPdfSave
    \/ Completado
    \/ MainOtraVez

Init == InitMain \/ InitTexto \/ InitPdf

Spec == Init /\ [][Next]_vars

----------------------------------------------------------------------------
(* Vocabulary of the properties *)

Rango(seq) == {seq[j] : j \in 1..Len(seq)}
SinRepetidos(seq) == Cardinality(Rango(seq)) = Len(seq)
EnMain == pc \in MainPcs

\* name is patron, "-", five decimal digits without a leading zero, ".pdf"
DigitSet == {"0", "1", "2", "3", "4", "5", "6", "7", "8", "9"}
NombreBienFormado(p, name) ==
    LET n == Len(p)
    IN  /\ Len(name) = n + 10
        /\ SubSeq(name, 1, n) = p
        /\ name[n + 1] = "-"
        /\ \A j \in (n + 2)..(n + 6) : name[j] \in DigitSet
        /\ name[n + 2] # "0"
        /\ SubSeq(name, n + 7, n + 10) = <<".", "p", "d", "f">>

\* path is name inside directory dir: dir, one separator, name
EnDirectorio(dir, name, path) ==
    LET d == IF dir # <<>> /\ dir[Len(dir)] = "/" THEN SubSeq(dir, 1, Len(dir) - 1) ELSE dir
    IN  path = d \o <<"/">> \o name

\* Every file of d that is also in e, the path p excepted, is the same in both.
Intactos(d, e, except) ==
    \A q \in DOMAIN d : q \notin except => (q \in DOMAIN e /\ e[q] = d[q])

----------------------------------------------------------------------------
(* C1 *)

RunValido == EnMain /\ cantidad >= 0 /\ 1 <= tmin /\ tmin <= tmax

\* C1 as stated: a successful first run with count >= 0 and 1 <= min_mb <=
\* max_mb, started on an empty output directory, leaves exactly count PDF
\* files there, whatever the random suffixes are.
C1_ExactlyCount ==
    (RunValido /\ run = 1 /\ pc = "done") => Cardinality(DOMAIN disk) = cantidad

\* C1: a successful first run with count >= 0 and 1 <= min_mb <= max_mb,
\* started on an empty output directory, has drawn count names and leaves
\* one complete PDF file per distinct name drawn: count files when the
\* suffixes are pairwise distinct, never more than count.
C1_CountDistinctNames ==
    (RunValido /\ run = 1 /\ pc = "done") =>
        /\ Len(names) = cantidad
        /\ DOMAIN disk = {OsPathJoin(salida, n) : n \in Rango(names)}
        /\ Cardinality(DOMAIN disk) = Cardinality(Rango(names))
        /\ Cardinality(DOMAIN disk) <= cantidad
        /\ SinRepetidos(names) => Cardinality(DOMAIN disk) = cantidad
        /\ \A q \in DOMAIN disk : disk[q].completo

C1_Witness ==
    /\ RunValido /\ run = 1 /\ pc = "done"
    /\ cantidad = 2
    /\ Cardinality(DOMAIN disk) = 2

----------------------------------------------------------------------------
(* C2 *)

----------------------------------------------------------------------------
(* C3 *)

\* C3 as stated: with count <= 0 no name is generated, no PDF file is
\* created, no error is raised and the run ends with the completion message.
C3_NoErrorAtAll ==
    (EnMain /\ cantidad <= 0) =>
        /\ names = <<>>
        /\ disk = disk0
        /\ pc # "error"
        /\ pc = "done" => printed

\* C3: with count <= 0 the loop body is never executed: no name is
\* generated, crear_pdf is not called, no PDF file is created, the only
\* error that can be raised is a failed creation of the output directory,
\* and once the directory step has passed the run goes on to print the
\* completion message and end normally.
C3_EmptyLoop ==
    (EnMain /\ cantidad <= 0) =>
        /\ k = 0
        /\ names = <<>>
        /\ llamadas = <<>>
        /\ ~canvas.abierto
        /\ disk = disk0
        /\ pc \in {"makedirs", "for", "print", "done", "error"}
        /\ pc = "error" => (err = [tipo |-> OSError, en |-> "makedirs"] /\ ~dir_existe)
        /\ pc = "done" <=> printed
        /\ pc \in {"for", "print"} => ENABLED (For \/ Completado)

C3_Witness ==
    /\ EnMain /\ cantidad = -1
    /\ pc = "done"
    /\ printed
    /\ names = <<>>

----------------------------------------------------------------------------
(* C4 *)

\* The 63 characters A-Z, a-z, 0-9 and space
Alfabeto ==
    {"A","B","C","D","E","F","G","H","I","J","K","L","M","N","O","P","Q","R","S",
     "T","U","V","W","X","Y","Z","a","b","c","d","e","f","g","h","i","j","k","l",
     "m","n","o","p","q","r","s","t","u","v","w","x","y","z","0","1","2","3","4",
     "5","6","7","8","9"," "}

TextoGenerado == pc \in {"canvas", "draw", "save"}

\* generar_texto_aleatorio(n) for n >= 0 returns exactly n characters of the
\* 63-character alphabet (the empty string for n = 0).
TextoDelAlfabeto ==
    (pc = "g_ret" /\ size_bytes >= 0) =>
        /\ Len(texto) = size_bytes
        /\ \A j \in 1..Len(texto) : texto[j] \in Alfabeto
        /\ Cardinality(Alfabeto) = 63
        /\ size_bytes = 0 => texto = <<>>

\* C4 as stated: in every call of crear_pdf with min_mb <= max_mb, size_mb is
\* in [min_mb, max_mb] and the text has exactly size_mb*1024*1024
\* characters, a length in [min_mb*1024*1024, max_mb*1024*1024]; and
\* generar_texto_aleatorio(n) returns n characters of the alphabet.
C4_LengthAnyRange ==
    /\ (TextoGenerado /\ tmin <= tmax) =>
          /\ tmin <= size_mb /\ size_mb <= tmax
          /\ texto_len = size_mb * 1048576
          /\ tmin * 1048576 <= texto_len /\ texto_len <= tmax * 1048576
    /\ TextoDelAlfabeto

\* C4: in every call of crear_pdf with 0 <= min_mb <= max_mb, size_mb is an
\* integer in [min_mb, max_mb] and the text has exactly size_mb*1024*1024
\* characters, a length in [min_mb*1024*1024, max_mb*1024*1024] (whenever
\* min_mb <= max_mb, size_mb is in [min_mb, max_mb]); and
\* generar_texto_aleatorio(n) returns exactly n characters for every n >= 0,
\* all of the 63-character alphabet A-Z, a-z, 0-9, space.
C4_LengthNonNegativeRange ==
    /\ (pc \in {"texto", "canvas", "draw", "save"}) =>
          /\ tmin <= size_mb /\ size_mb <= tmax
          /\ size_bytes = size_mb * 1048576
    /\ (TextoGenerado /\ 0 <= tmin) =>
          /\ texto_len = size_mb * 1048576
          /\ tmin * 1048576 <= texto_len /\ texto_len <= tmax * 1048576
    /\ TextoDelAlfabeto

C4_Witness ==
    /\ pc = "save"
    /\ tmin = 0 /\ tmax = 1
    /\ size_mb = 1
    /\ texto_len = 1048576

----------------------------------------------------------------------------
(* C5 *)

\* C5: every name produced by nombre_pdf(patron) is patron, "-", the five
\* decimal digits of an integer in [10000, 99999] (no leading zero) and
\* ".pdf"; every path main passes to crear_pdf is that name joined to the
\* output directory.
C5_NameFormat ==
    EnMain =>
        /\ \A j \in 1..Len(names) : NombreBienFormado(patron, names[j])
        /\ nombre # <<>> => nombre = names[Len(names)]
        /\ Len(llamadas) <= Len(names)
        /\ \A j \in 1..Len(llamadas) : EnDirectorio(salida, names[j], llamadas[j])
        /\ pc \in {"randint", "texto", "canvas", "draw", "save"} =>
              EnDirectorio(salida, nombre, ruta_pdf)

C5_Witness ==
    /\ EnMain
    /\ Len(llamadas) = 2
    /\ names[1] # names[2]
    /\ salida = <<"o", "/">>

----------------------------------------------------------------------------
(* C6 *)

\* C6: when main is run twice with the same output directory, pattern and
\* valid arguments, the second run does not fail because the directory
\* exists (directory creation only fails for a missing directory); a file
\* the first run left is changed or removed by the second run only if the
\* second run was given that same name; and when both runs succeed and no
\* name is drawn twice, the directory holds 2 * count files.
C6_TwoRuns ==
    EnMain =>
        /\ (pc = "error" /\ err.en = "makedirs") => ~dir_existe
        /\ (run = 2 /\ resultados = <<"done">>) => err.en # "makedirs"
        /\ run = 2 => Intactos(disk0, disk, Rango(llamadas))
        /\ (/\ run = 2 /\ pc = "done" /\ resultados = <<"done">>
            /\ cantidad >= 0
            /\ Cardinality(DOMAIN disk0) = cantidad
            /\ SinRepetidos(names)
            /\ Rango(llamadas) \cap DOMAIN disk0 = {})
           => Cardinality(DOMAIN disk) = 2 * cantidad

C6_Witness ==
    /\ EnMain
    /\ run = 2 /\ pc = "done" /\ resultados = <<"done">>
    /\ cantidad = 1
    /\ dir_existe
    /\ Cardinality(DOMAIN disk) = 2
    /\ Cardinality(DOMAIN disk0) = 1

----------------------------------------------------------------------------
(* C7 *)

FalloAlGuardar == EnMain /\ err.en = "save"

\* C7 as stated: when creating the k-th file fails with a file system error,
\* the batch has stopped (k names generated, k calls of crear_pdf, no
\* completion message) and the files completed before the error are still
\* on disk unchanged.
C7_AllEarlierFilesIntact ==
    FalloAlGuardar =>
        /\ pc = "error"
        /\ Len(names) = k
        /\ Len(llamadas) = k
        /\ ~printed
        /\ Intactos(disk_antes, disk, {})

\* What holds when the k-th crear_pdf has failed with a file system error.
C7_AlFallar ==
    FalloAlGuardar =>
        /\ pc = "error"
        /\ k >= 1
        /\ Len(names) = k
        /\ Len(llamadas) = k
        /\ canvas.ruta = llamadas[k]
        /\ ~printed
        /\ Intactos(disk_antes, disk, {llamadas[k]})
        /\ DOMAIN disk \subseteq DOMAIN disk_antes \cup {llamadas[k]}

\* After the error this run does nothing more.
C7_NadaDespues ==
    FalloAlGuardar => (pc' = "makedirs" /\ run' = run + 1 /\ disk' = disk)

\* C7: when creating the k-th file fails with a file system error, the batch
\* stops there: no further name is generated, the failing file is not
\* retried, no further file is written, the completion message is not
\* printed, and every file completed before the error under a name other
\* than the failing file's is still on disk unchanged.
C7_FailFast == [](C7_AlFallar) /\ [][C7_NadaDespues]_vars

C7_Witness ==
    /\ FalloAlGuardar
    /\ run = 1
    /\ k = 2
    /\ Cardinality(DOMAIN disk) = 1
    /\ \A q \in DOMAIN disk : disk[q].completo /\ disk[q].k = 1

----------------------------------------------------------------------------
(* C8, C9, C10: the calls crear_pdf makes on its canvas *)

EnPdf == pc \in {"p_for", "p_ret", "p_error"}
Dibujos == SelectSeq(ops, LAMBDA o : o.op = "drawString")
Paginas == SelectSeq(ops, LAMBDA o : o.op = "showPage")
Guardados == SelectSeq(ops, LAMBDA o : o.op = "save")

\* ceil(n / 100)
NumChunks(n) == (n + 99) \div 100

\* C8: in a call of crear_pdf that returns, c.save() is called exactly once,
\* after every chunk of the text has been drawn and after every showPage,
\* and nothing is drawn after it; in main the canvas of the next file is
\* opened only after the save of the current one, and a canvas is saved at
\* most once.
C8_SaveOnceLast ==
    /\ EnPdf =>
          /\ \A j \in 1..Len(ops) : ops[j].op = "save" => (j = Len(ops) /\ pc = "p_ret")
          /\ pc = "p_ret" =>
                /\ Len(Guardados) = 1
                /\ ops[Len(ops)].op = "save"
                /\ Len(Dibujos) = NumChunks(Len(texto))
          /\ pc = "p_error" => Len(Guardados) = 0
    /\ EnMain =>
          /\ canvas.saved <= 1
          /\ pc \in {"nombre_pdf", "join", "randint", "texto", "canvas"} =>
                (canvas.abierto => canvas.saved = 1)
          /\ pc \in {"draw", "save"} => (canvas.abierto /\ canvas.saved = 0)
          /\ (pc = "for" /\ k >= 1) => (canvas.saved = 1 /\ canvas.ruta = llamadas[k])

C8_Witness ==
    /\ pc = "p_ret"
    /\ Len(Paginas) = 1
    /\ Len(Dibujos) = 51
    /\ Len(Guardados) = 1

\* C9: whenever a chunk is drawn the line counter is in 0..49, its vertical
\* offset is 750 - 14 * linea, in 64..750, and the first line of every page
\* is at 750; showPage is called exactly when the 50th line of a page has
\* been drawn and the counter then restarts at 0, so that no page gets more
\* than 50 lines and the loop makes floor(chunks / 50) showPage calls.
C9_Pagination ==
    EnPdf =>
        /\ linea \in 0..49
        /\ linea = Len(Dibujos) % 50
        /\ Len(Paginas) = Len(Dibujos) \div 50
        /\ \A j \in 1..Len(ops) :
              /\ ops[j].op = "showPage" <=> (j % 51 = 0)
              /\ ops[j].op = "drawString" =>
                    /\ ops[j].linea = (j % 51) - 1
                    /\ ops[j].linea \in 0..49
                    /\ ops[j].y = 750 - 14 * ops[j].linea
                    /\ ops[j].y \in 64..750
                    /\ (j = 1 \/ ops[j - 1].op = "showPage") <=> ops[j].y = 750
              /\ ops[j].op = "save" => j = Len(ops)

C9_Witness ==
    /\ pc = "p_ret"
    /\ Len(Paginas) = 2
    /\ Len(Dibujos) = 101

\* C10: the chunks passed to drawString, in the order drawn, concatenate to
\* the text read so far, and at the end to the whole text: nothing lost,
\* duplicated or reordered; there are ceil(len(text) / 100) of them, each of
\* exactly 100 characters except possibly the last, which has between 1 and
\* 100; no empty chunk is drawn and an empty text draws nothing.
C10_Chunks ==
    EnPdf =>
        LET dib == Dibujos
            n == Len(dib)
            \* the characters drawn by the first d chunks: the chunks before
            \* the last have 100 each
            desde(d) == IF d = 0 THEN 0 ELSE 100 * (d - 1) + Len(dib[d].s)
        IN  /\ \A d \in 1..n :
                  /\ Len(dib[d].s) \in 1..100
                  /\ d < n => Len(dib[d].s) = 100
                  /\ dib[d].s = SubSeq(texto, desde(d - 1) + 1, desde(d))
            /\ desde(n) = (IF i < Len(texto) THEN i ELSE Len(texto))
            /\ pc # "p_for" =>
                  /\ n = NumChunks(Len(texto))
                  /\ desde(n) = Len(texto)
            /\ texto = <<>> => n = 0

C10_Witness ==
    /\ pc = "p_ret"
    /\ Len(texto) = 5001
    /\ Len(Dibujos) = 51
    /\ Len(Dibujos[51].s) = 1

====
